---- MODULE Spec2Model ----
(***************************************************************************)
(* A model of the unix2 crate: the epoll wrapper (src/src/epoll.rs) over   *)
(* the kernel's epoll instance, and the credential helpers                 *)
(* (src/src/lib.rs) over the kernel's process credentials.                 *)
(***************************************************************************)
EXTENDS Integers, Sequences, FiniteSets, TLC

(***************************************************************************)
(* Machine words.  A u32 is the set of the positions (0 .. 31) of its one  *)
(* bits, a u64 the pair <<low u32, high u32>>; memory is a sequence of     *)
(* 32-bit words, so a u32 field occupies one of them and a u64 field two.  *)
(***************************************************************************)
And32(x, y) == x \cap y
Or32(x, y) == x \cup y
Not32(x) == (0..31) \ x
Zero32 == {}
Zero64 == <<{}, {}>>

(***************************************************************************)
(* Events: a u32 bit field with union and intersection.                    *)
(***************************************************************************)
empty == [bits |-> Zero32]
from_bits(b) == [bits |-> b]
bits(self) == self.bits

\* Mutant of bitand: self.bits & !rhs.bits.
bitand_andnot(self, rhs) == [bits |-> And32(self.bits, Not32(rhs.bits))]
bitand(self, rhs) == [bits |-> And32(self.bits, rhs.bits)]
bitor(self, rhs) == [bits |-> Or32(self.bits, rhs.bits)]

\* 0x001, 0x002, 0x004, 0x008, 0x010, 0x2000, 1 << 28, 1 << 29, 1 << 30, 1 << 31
EPOLLIN == [bits |-> {0}]
EPOLLPRI == [bits |-> {1}]
EPOLLOUT == [bits |-> {2}]
EPOLLERR == [bits |-> {3}]
EPOLLHUP == [bits |-> {4}]
EPOLLRDHUP == [bits |-> {13}]
EPOLLEXCLUSIVE == [bits |-> {28}]
EPOLLWAKEUP == [bits |-> {29}]
EPOLLONESHOT == [bits |-> {30}]
EPOLLET == [bits |-> {31}]

AllFlags ==
  <<EPOLLET, EPOLLIN, EPOLLONESHOT, EPOLLHUP, EPOLLOUT, EPOLLERR,
    EPOLLRDHUP, EPOLLEXCLUSIVE, EPOLLPRI, EPOLLWAKEUP>>

(***************************************************************************)
(* Bounds of the model.                                                    *)
(***************************************************************************)
MaxFds == 2          \* descriptor numbers 3 .. 2 + MaxFds
MaxBuf == 2          \* longest event buffer handed to wait
MaxDrops == 2        \* releases of one poller (the second is the double release)
NumMasks == 3        \* interest masks a caller picks from (a prefix of MaskSeq)
NumTags == 3         \* tags a caller picks from (a prefix of TagSeq)
TimeoutSpan == 2     \* timeouts -TimeoutSpan .. TimeoutSpan, and the two i32 extremes
NumFlags == 4        \* flags the Events values are built from (a prefix of AllFlags)
MaxId == 2           \* user and group ids 0 .. MaxId
NumKinds == 2        \* kinds of file the process opens (a prefix of pipe, regular file)
NumModes == 3        \* file-creation masks a caller picks from (a prefix of ModeSeq)

I32Max == 2147483647
I32Min == -I32Max - 1

(***************************************************************************)
(* Event, and its image in memory.  The struct is declared                 *)
(* { events: u32, data: u64 } with repr(packed) on x86 / x86_64 and with   *)
(* no repr(C) on any target, so where the two fields differ in alignment   *)
(* the compiler is free to place either first.                             *)
(***************************************************************************)
Event_new(evs, data) == [events |-> bits(evs), data |-> data]
Event_default == Event_new(empty, Zero64)
Event_events(self) == from_bits(self.events)
raw_events(self) == self.events
raw_data(self) == self.data

Targets == {"x86_64", "aarch64"}
FieldOrders == {"declared", "by_alignment"}

RoundUp(n, a) == ((n + a - 1) \div a) * a

\* Sizes, offsets and alignments in 32-bit words; a packed field has the smallest
\* alignment.  "by_alignment" places the more strictly aligned field first.
StructLayout(packed, order) ==
  LET alignEvents == 1
      alignData == IF packed THEN 1 ELSE 2
      dataFirst == order = "by_alignment" /\ alignData > alignEvents
      eventsOff == IF dataFirst THEN RoundUp(2, alignEvents) ELSE 0
      dataOff == IF dataFirst THEN 0 ELSE RoundUp(1, alignData)
      end == IF dataFirst THEN eventsOff + 1 ELSE dataOff + 2
  IN [size |-> RoundUp(end, alignData), eventsOff |-> eventsOff, dataOff |-> dataOff]

EventPacked(t) == t \in {"x86", "x86_64"}
EventLayout(t, order) == StructLayout(EventPacked(t), order)
\* struct epoll_event of the target's ABI (libc::epoll_event is repr(C)).
KernelLayout(t) == StructLayout(t \in {"x86", "x86_64"}, "declared")

Zeroed(n) == [i \in 1..n |-> Zero32]
Get(mem, off, n) == [i \in 1..n |-> mem[off + i]]
Put(mem, off, vals) ==
  [i \in 1..Len(mem) |->
     IF i > off /\ i <= off + Len(vals) THEN vals[i - off] ELSE mem[i]]

\* The bytes of one Event as the wrapper lays it out (zeroed, then the fields).
EventImage(lay, ev) ==
  Put(Put(Zeroed(lay.size), lay.eventsOff, <<ev.events>>), lay.dataOff, ev.data)
\* The i-th (from 0) Event of a buffer as the wrapper reads it.
EventAt(lay, mem, i) ==
  [events |-> mem[i * lay.size + lay.eventsOff + 1],
   data |-> Get(mem, i * lay.size + lay.dataOff, 2)]

(***************************************************************************)
(* State.                                                                  *)
(***************************************************************************)
VARIABLES
  target,     \* the target the crate is built for
  layout,     \* the layout that build gives struct Event
  poller,     \* "none" (not created), "live", "dropped"
  epfd,       \* Epoll.epfd
  fdtab,      \* kernel: descriptor number -> "closed", "epoll", "pipe", "reg"
  interest,   \* kernel: the epoll instance's interest list, per descriptor
  rdllist,    \* kernel: the epoll instance's ready list (descriptors, in order)
  cond,       \* kernel: the poll state of each open file (a u32 of EPOLL* bits)
  waiter,     \* the thread inside Epoll::wait, when its epoll_wait sleeps
  last,       \* the wrapper call that returned in the last step, with its result
  arm,        \* per descriptor: what the caller last registered, and the events
              \* returned for it since
  dropLog,    \* what each release's close() found at the stored descriptor
  cred,       \* kernel: the process credentials and file-creation mask
  clast,      \* the credential helper that returned in the last step
  ex, ey, ez  \* three Events values

epollVars ==
  <<target, layout, poller, epfd, fdtab, interest, rdllist, cond, waiter, last,
    arm, dropLog>>
credVars == <<cred, clast>>
algVars == <<ex, ey, ez>>
vars == <<epollVars, credVars, algVars>>

\* Descriptor numbers above the three standard streams.
FdNums == 3 .. (2 + MaxFds)

Unreg == [on |-> FALSE, events |-> Zero32, data |-> Zero64]
Has(x, flag) == And32(x, flag.bits) # Zero32
InSeq(seq, x) == \E i \in 1..Len(seq) : seq[i] = x
Remove(seq, x) == SelectSeq(seq, LAMBDA y : y # x)
FdOpen(fd) == fd \in FdNums /\ fdtab[fd] # "closed"

EP_PRIVATE_BITS ==
  Or32(Or32(EPOLLWAKEUP.bits, EPOLLONESHOT.bits), Or32(EPOLLET.bits, EPOLLEXCLUSIVE.bits))
EPOLLEXCLUSIVE_OK_BITS ==
  Or32(Or32(Or32(EPOLLIN.bits, EPOLLOUT.bits), Or32(EPOLLERR.bits, EPOLLHUP.bits)),
       Or32(Or32(EPOLLWAKEUP.bits, EPOLLET.bits), EPOLLEXCLUSIVE.bits))

\* The kernel's reading and writing of a struct epoll_event in user memory.
KernelRead(mem) ==
  LET abi == KernelLayout(target)
  IN [events |-> mem[abi.eventsOff + 1], data |-> Get(mem, abi.dataOff, 2)]
KernelWrite(mem, i, revents, data) ==
  LET abi == KernelLayout(target)
  IN Put(Put(mem, i * abi.size + abi.eventsOff, <<revents>>), i * abi.size + abi.dataOff, data)

(***************************************************************************)
(* The system calls the wrapper issues, as the kernel serves them.         *)
(***************************************************************************)
LowestFree == CHOOSE fd \in FdNums :
  /\ fdtab[fd] = "closed"
  /\ \A g \in FdNums : fdtab[g] = "closed" => fd <= g

EPOLL_CLOEXEC == 524288

sys_epoll_create1(flags, nomem) ==
  IF flags \notin {0, EPOLL_CLOEXEC} THEN [raw |-> -1, errno |-> "EINVAL", fdtab |-> fdtab]
  ELSE IF \A fd \in FdNums : fdtab[fd] # "closed"
         THEN [raw |-> -1, errno |-> "EMFILE", fdtab |-> fdtab]
  ELSE IF nomem THEN [raw |-> -1, errno |-> "ENOMEM", fdtab |-> fdtab]
  ELSE [raw |-> LowestFree, errno |-> "none",
        fdtab |-> [fdtab EXCEPT ![LowestFree] = "epoll"]]

\* libc's EPOLL_CTL_ADD, EPOLL_CTL_DEL, EPOLL_CTL_MOD.
EPOLL_CTL_ADD == 1
EPOLL_CTL_DEL == 2
EPOLL_CTL_MOD == 3

sys_epoll_ctl(efd, op, fd, mem, nospc) ==
  LET ev == KernelRead(mem)
      fail(e) == [raw |-> -1, errno |-> e, interest |-> interest, rdllist |-> rdllist]
      ok(i, r) == [raw |-> 0, errno |-> "none", interest |-> i, rdllist |-> r]
      evs == Or32(ev.events, Or32(EPOLLERR.bits, EPOLLHUP.bits))
      pending == And32(cond[fd], evs) # Zero32
      entry == [on |-> TRUE, events |-> evs, data |-> ev.data]
  IN
  IF ~FdOpen(efd) \/ ~FdOpen(fd) THEN fail("EBADF")
  ELSE IF fdtab[fd] = "reg" THEN fail("EPERM")
  ELSE IF fd = efd \/ fdtab[efd] # "epoll" THEN fail("EINVAL")
  ELSE IF /\ op # EPOLL_CTL_DEL
          /\ Has(ev.events, EPOLLEXCLUSIVE)
          /\ \/ op = EPOLL_CTL_MOD
             \/ fdtab[fd] = "epoll"
             \/ And32(ev.events, Not32(EPOLLEXCLUSIVE_OK_BITS)) # Zero32
         THEN fail("EINVAL")
  ELSE IF op = EPOLL_CTL_ADD THEN
         IF interest[fd].on THEN fail("EEXIST")
         ELSE IF nospc THEN fail("ENOSPC")
         ELSE ok([interest EXCEPT ![fd] = entry],
                 IF pending THEN Append(rdllist, fd) ELSE rdllist)
  ELSE IF op = EPOLL_CTL_DEL THEN
         IF interest[fd].on THEN ok([interest EXCEPT ![fd] = Unreg], Remove(rdllist, fd))
         ELSE fail("ENOENT")
  ELSE IF op # EPOLL_CTL_MOD THEN fail("EINVAL")
  ELSE IF ~interest[fd].on THEN fail("ENOENT")
  ELSE IF Has(interest[fd].events, EPOLLEXCLUSIVE) THEN fail("EINVAL")
  ELSE ok([interest EXCEPT ![fd] = entry],
          IF pending /\ ~InSeq(rdllist, fd) THEN Append(rdllist, fd) ELSE rdllist)

\* One pass over the ready list: each item is polled again and, when an event it
\* asks for is pending, written to the next slot of the user's buffer; a one-shot
\* item is then disabled, a level-triggered one queued again, an edge-triggered
\* one dropped from the list.
RECURSIVE ep_send_events(_, _, _)
ep_send_events(tx, maxevents, acc) ==
  IF tx = <<>> \/ acc.n >= maxevents THEN [acc EXCEPT !.rest = tx]
  ELSE
    LET fd == Head(tx)
        epi == acc.interest[fd]
        revents == And32(cond[fd], epi.events)
        sent == [acc EXCEPT !.mem = KernelWrite(@, acc.n, revents, epi.data),
                            !.n = @ + 1,
                            !.from = Append(@, fd)]
    IN
    IF revents = Zero32 THEN ep_send_events(Tail(tx), maxevents, acc)
    ELSE IF Has(epi.events, EPOLLONESHOT) THEN
      ep_send_events(Tail(tx), maxevents,
        [sent EXCEPT !.interest[fd].events = And32(@, EP_PRIVATE_BITS)])
    ELSE IF ~Has(epi.events, EPOLLET) THEN
      ep_send_events(Tail(tx), maxevents, [sent EXCEPT !.readd = Append(@, fd)])
    ELSE ep_send_events(Tail(tx), maxevents, sent)

\* What a scan of the ready list yields for a buffer `mem` of `maxevents` slots.
Scan(mem, maxevents) ==
  LET r == ep_send_events(rdllist, maxevents,
             [mem |-> mem, n |-> 0, from |-> <<>>, interest |-> interest,
              readd |-> <<>>, rest |-> <<>>])
  IN [mem |-> r.mem, n |-> r.n, from |-> r.from, interest |-> r.interest,
      rdllist |-> r.rest \o r.readd]

\* The wake-up callback of a watched file on which condition `flag` arose.
ep_poll_callback(fd, flag) ==
  IF /\ interest[fd].on
     /\ And32(interest[fd].events, Not32(EP_PRIVATE_BITS)) # Zero32
     /\ Has(interest[fd].events, flag)
     /\ ~InSeq(rdllist, fd)
  THEN Append(rdllist, fd)
  ELSE rdllist

sys_close(fd, eintr) ==
  IF ~FdOpen(fd)
    THEN [raw |-> -1, errno |-> "EBADF", fdtab |-> fdtab, interest |-> interest,
          rdllist |-> rdllist, cond |-> cond]
  ELSE
    [raw |-> IF eintr THEN -1 ELSE 0,
     errno |-> IF eintr THEN "EINTR" ELSE "none",
     fdtab |-> [fdtab EXCEPT ![fd] = "closed"],
     interest |-> IF fdtab[fd] = "epoll" THEN [g \in FdNums |-> Unreg]
                  ELSE [interest EXCEPT ![fd] = Unreg],
     rdllist |-> IF fdtab[fd] = "epoll" THEN <<>> ELSE Remove(rdllist, fd),
     cond |-> [cond EXCEPT ![fd] = Zero32]]

\* epoll_wait up to the point where it returns or goes to sleep.
sys_epoll_wait(efd, mem, maxevents, timeout) ==
  LET s == Scan(mem, maxevents)
      fail(e) == [sleep |-> FALSE, raw |-> -1, errno |-> e, mem |-> mem, from |-> <<>>,
                  interest |-> interest, rdllist |-> rdllist]
  IN
  IF maxevents <= 0 THEN fail("EINVAL")
  ELSE IF ~FdOpen(efd) THEN fail("EBADF")
  ELSE IF fdtab[efd] # "epoll" THEN fail("EINVAL")
  ELSE [sleep |-> s.n = 0 /\ timeout # 0, raw |-> s.n, errno |-> "none", mem |-> s.mem,
        from |-> s.from, interest |-> s.interest, rdllist |-> s.rdllist]

(***************************************************************************)
(* The wrapper.                                                            *)
(***************************************************************************)
Ok(v) == [ok |-> TRUE, val |-> v, err |-> "none"]
Err(e) == [ok |-> FALSE, val |-> 0, err |-> e]

\* Mutants of cvt: `result <= 0` and `result < -1` for `result < 0`.
cvt_nonpositive(result, errno) == IF result <= 0 THEN Err(errno) ELSE Ok(result)
cvt_below_minus_one(result, errno) == IF result < -1 THEN Err(errno) ELSE Ok(result)
cvt(result, errno) == IF result < 0 THEN Err(errno) ELSE Ok(result)

\* enum Control, and `op as i32`.
Controls == {"EPOLL_CTL_ADD", "EPOLL_CTL_MOD", "EPOLL_CTL_DEL"}
\* Mutant of ControlAsI32: the variants numbered in their declared order.
ControlAsI32_declared(op) ==
  CASE op = "EPOLL_CTL_ADD" -> 1
    [] op = "EPOLL_CTL_MOD" -> 2
    [] op = "EPOLL_CTL_DEL" -> 3
ControlAsI32(op) ==
  CASE op = "EPOLL_CTL_ADD" -> EPOLL_CTL_ADD
    [] op = "EPOLL_CTL_MOD" -> EPOLL_CTL_MOD
    [] op = "EPOLL_CTL_DEL" -> EPOLL_CTL_DEL

\* Mutants of ClampTimeout: the timeout passed through, and a timeout below -1
\* turned into a poll.
ClampTimeout_none(timeout) == timeout
ClampTimeout_poll(timeout) == IF timeout < -1 THEN 0 ELSE timeout
ClampTimeout(timeout) == IF timeout < -1 THEN -1 ELSE timeout
\* buf.len() as i32, for lengths below 2^32.
LenAsI32(n) == IF n <= I32Max THEN n ELSE n - I32Max - I32Max - 2

\* A call: its name; whether it returned at once, went to sleep ("blocked") or
\* returned from sleep ("resumed"); the system calls it issued; the last one's
\* return value and errno; the wrapper's result; its arguments (cop, fd, evs, tag
\* of ctl; flags of create; timeout, len of wait); the timeout handed to the
\* kernel and whether the sleep is indefinite; the buffer as it returns; and the
\* descriptors whose events the kernel wrote to it.
NoCall ==
  [op |-> "none", phase |-> "returned", sys |-> <<>>, raw |-> 0, errno |-> "none",
   res |-> Ok(0), cop |-> "", fd |-> 0, evs |-> Zero32, tag |-> Zero64, flags |-> 0,
   timeout |-> 0, ktimeout |-> 0, indef |-> FALSE, len |-> 0, mem |-> <<>>,
   from |-> <<>>]
NoArm == [on |-> FALSE, events |-> Zero32, tag |-> Zero64, n |-> 0]
Idle == [blocked |-> FALSE, timed |-> FALSE, len |-> 0]

MaskSeq ==
  <<EPOLLIN,
    bitor(bitor(EPOLLIN, EPOLLET), EPOLLONESHOT),
    bitor(EPOLLIN, EPOLLEXCLUSIVE),
    bitor(EPOLLIN, EPOLLET),
    empty>>
\* 1, 2^32, 2^64 - 1, 0
TagSeq == << <<{0}, {}>>, <<{}, {0}>>, <<0..31, 0..31>>, <<{}, {}>> >>
Prefix(seq, n) == {seq[i] : i \in 1..(IF n < Len(seq) THEN n ELSE Len(seq))}
Masks == Prefix(MaskSeq, NumMasks)
Tags == Prefix(TagSeq, NumTags)
Timeouts == (-TimeoutSpan .. TimeoutSpan) \cup {I32Min, I32Max}
CondFlags == {EPOLLIN, EPOLLHUP}

\* The events returned for a descriptor that the caller registered edge-triggered
\* and one-shot are counted, up to "two or more".
OneShotEdge == bitor(EPOLLET, EPOLLONESHOT).bits
Delivered(a, from) ==
  [fd \in FdNums |->
     IF InSeq(from, fd) /\ OneShotEdge \subseteq a[fd].events /\ a[fd].n < 2
       THEN [a[fd] EXCEPT !.n = @ + 1]
     ELSE a[fd]]

Create(cloexec, nomem) ==
  /\ last.op = "none"
  /\ poller = "none"
  /\ LET flags == IF cloexec THEN EPOLL_CLOEXEC ELSE 0
         k == sys_epoll_create1(flags, nomem)
         res == cvt(k.raw, k.errno)
     IN /\ fdtab' = k.fdtab
        /\ poller' = IF res.ok THEN "live" ELSE "none"
        /\ epfd' = IF res.ok THEN res.val ELSE epfd
        /\ last' = [NoCall EXCEPT !.op = "create", !.sys = <<"epoll_create1">>,
                                  !.raw = k.raw, !.errno = k.errno, !.res = res,
                                  !.flags = flags]
  /\ UNCHANGED <<credVars, algVars, target, layout, interest, rdllist, cond, waiter, arm, dropLog>>

Ctl(op, fd, evs, tag, nospc) ==
  /\ last.op = "none"
  /\ poller = "live"
  /\ LET event == Event_new(evs, tag)
         k == sys_epoll_ctl(epfd, ControlAsI32(op), fd, EventImage(layout, event), nospc)
         res == cvt(k.raw, k.errno)
     IN /\ interest' = k.interest
        /\ rdllist' = k.rdllist
        /\ arm' = IF ~res.ok THEN arm
                  ELSE IF op = "EPOLL_CTL_DEL" THEN [arm EXCEPT ![fd] = NoArm]
                  ELSE [arm EXCEPT ![fd] =
                          [on |-> TRUE, events |-> bits(evs), tag |-> tag, n |-> 0]]
        /\ last' = [NoCall EXCEPT !.op = "ctl", !.sys = <<"epoll_ctl">>,
                                  !.raw = k.raw, !.errno = k.errno,
                                  !.res = IF res.ok THEN Ok(0) ELSE res,
                                  !.cop = op, !.fd = fd, !.evs = bits(evs), !.tag = tag]
  /\ UNCHANGED <<credVars, algVars, target, layout, poller, epfd, fdtab, cond, waiter, dropLog>>

Wait(timeout, n) ==
  /\ last.op = "none"
  /\ poller = "live"
  /\ ~waiter.blocked
  /\ LET ktimeout == ClampTimeout(timeout)
         k == sys_epoll_wait(epfd, Zeroed(n * layout.size), LenAsI32(n), ktimeout)
         res == cvt(k.raw, k.errno)
     IN /\ interest' = k.interest
        /\ rdllist' = k.rdllist
        /\ arm' = Delivered(arm, k.from)
        /\ waiter' = IF k.sleep THEN [blocked |-> TRUE, timed |-> ktimeout > 0, len |-> n]
                     ELSE Idle
        /\ last' = [NoCall EXCEPT !.op = "wait",
                                  !.phase = IF k.sleep THEN "blocked" ELSE "returned",
                                  !.sys = <<"epoll_wait">>, !.raw = k.raw,
                                  !.errno = k.errno, !.res = res,
                                  !.timeout = timeout, !.ktimeout = ktimeout,
                                  !.indef = ktimeout < 0,
                                  !.len = n, !.mem = k.mem, !.from = k.from]
  /\ UNCHANGED <<credVars, algVars, target, layout, poller, epfd, fdtab, cond, dropLog>>

\* The sleeping epoll_wait returns: `raw` and `errno` when the scan finds nothing.
Resume(s, raw, errno) ==
  LET r == IF s.n > 0 THEN s.n ELSE raw
      e == IF s.n > 0 THEN "none" ELSE errno
  IN /\ interest' = s.interest
     /\ rdllist' = s.rdllist
     /\ arm' = Delivered(arm, s.from)
     /\ waiter' = Idle
     /\ last' = [NoCall EXCEPT !.op = "wait", !.phase = "resumed",
                               !.sys = <<"epoll_wait">>, !.raw = r, !.errno = e,
                               !.res = cvt(r, e), !.indef = ~waiter.timed,
                               !.len = waiter.len, !.mem = s.mem, !.from = s.from]
     /\ UNCHANGED <<credVars, algVars, target, layout, poller, epfd, fdtab, cond, dropLog>>

WaitScan == Scan(Zeroed(waiter.len * layout.size), LenAsI32(waiter.len))

\* The ready list woke the sleeper: it returns what the scan yields, or sleeps on.
WaitWake ==
  /\ waiter.blocked
  /\ rdllist # <<>>
  /\ \E s \in {WaitScan} :
     IF s.n > 0 THEN Resume(s, 0, "none")
     ELSE /\ interest' = s.interest
          /\ rdllist' = s.rdllist
          /\ last' = NoCall
          /\ UNCHANGED <<credVars, algVars, target, layout, poller, epfd, fdtab, cond, waiter, arm, dropLog>>

WaitTimeout ==
  /\ last.op = "none"
  /\ waiter.blocked
  /\ waiter.timed
  /\ WaitScan.n = 0
  /\ Resume(WaitScan, 0, "none")

WaitSignal ==
  /\ last.op = "none"
  /\ waiter.blocked
  /\ WaitScan.n = 0
  /\ Resume(WaitScan, -1, "EINTR")

\* Mutant of Drop: the handle is not overwritten with -1.
Drop_no_sentinel(eintr) ==
  /\ last.op = "none"
  /\ \/ poller = "live" /\ ~waiter.blocked
     \/ poller = "dropped" /\ Len(dropLog) < MaxDrops
  /\ LET k == sys_close(epfd, eintr)
         ignored == cvt(k.raw, k.errno)
     IN /\ fdtab' = k.fdtab
        /\ interest' = k.interest
        /\ rdllist' = k.rdllist
        /\ cond' = k.cond
        /\ dropLog' = Append(dropLog, IF FdOpen(epfd) THEN fdtab[epfd] ELSE "closed")
        /\ last' = [NoCall EXCEPT !.op = "drop", !.sys = <<"close">>, !.raw = k.raw,
                                  !.errno = k.errno]
  /\ epfd' = epfd
  /\ poller' = "dropped"
  /\ arm' = [fd \in FdNums |-> NoArm]
  /\ UNCHANGED <<credVars, algVars, target, layout, waiter>>

Drop(eintr) ==
  /\ last.op = "none"
  /\ \/ poller = "live" /\ ~waiter.blocked
     \/ poller = "dropped" /\ Len(dropLog) < MaxDrops
  /\ LET k == sys_close(epfd, eintr)
         ignored == cvt(k.raw, k.errno)
     IN /\ fdtab' = k.fdtab
        /\ interest' = k.interest
        /\ rdllist' = k.rdllist
        /\ cond' = k.cond
        /\ dropLog' = Append(dropLog, IF FdOpen(epfd) THEN fdtab[epfd] ELSE "closed")
        /\ last' = [NoCall EXCEPT !.op = "drop", !.sys = <<"close">>, !.raw = k.raw,
                                  !.errno = k.errno]
  /\ epfd' = -1
  /\ poller' = "dropped"
  /\ arm' = [fd \in FdNums |-> NoArm]
  /\ UNCHANGED <<credVars, algVars, target, layout, waiter>>

(***************************************************************************)
(* The rest of the process and the outside world.                          *)
(***************************************************************************)
EnvOpen(kind) ==
  /\ last.op = "none"
  /\ \E fd \in FdNums : fdtab[fd] = "closed"
  /\ fdtab' = [fdtab EXCEPT ![LowestFree] = kind]
  /\ last' = NoCall
  /\ UNCHANGED <<credVars, algVars, target, layout, poller, epfd, interest, rdllist, cond, waiter, arm, dropLog>>

EnvClose(fd) ==
  /\ last.op = "none"
  /\ fdtab[fd] \in {"pipe", "reg"}
  /\ LET k == sys_close(fd, FALSE)
     IN /\ fdtab' = k.fdtab
        /\ interest' = k.interest
        /\ rdllist' = k.rdllist
        /\ cond' = k.cond
  /\ arm' = [arm EXCEPT ![fd] = NoArm]
  /\ last' = NoCall
  /\ UNCHANGED <<credVars, algVars, target, layout, poller, epfd, waiter, dropLog>>

\* A condition arises on a file (again, when it already holds).
FdEvent(fd, flag) ==
  /\ last.op = "none"
  /\ fdtab[fd] = "pipe"
  /\ cond' = [cond EXCEPT ![fd] = Or32(@, flag.bits)]
  /\ rdllist' = ep_poll_callback(fd, flag)
  /\ last' = NoCall
  /\ UNCHANGED <<credVars, algVars, target, layout, poller, epfd, fdtab, interest, waiter, arm, dropLog>>

\* The pending input of a file is consumed.
FdDrain(fd) ==
  /\ last.op = "none"
  /\ fdtab[fd] = "pipe"
  /\ Has(cond[fd], EPOLLIN)
  /\ cond' = [cond EXCEPT ![fd] = And32(@, Not32(EPOLLIN.bits))]
  /\ last' = NoCall
  /\ UNCHANGED <<credVars, algVars, target, layout, poller, epfd, fdtab, interest, rdllist, waiter, arm, dropLog>>

\* The caller has taken the result of the call that returned.
Settle ==
  /\ last.op # "none"
  /\ last' = NoCall
  /\ UNCHANGED <<credVars, algVars, target, layout, poller, epfd, fdtab, interest, rdllist,
                 cond, waiter, arm, dropLog>>

EpollInit ==
  /\ target \in Targets
  /\ layout \in {EventLayout(target, o) : o \in FieldOrders}
  /\ poller = "none"
  /\ epfd = -1
  /\ fdtab = [fd \in FdNums |-> "closed"]
  /\ interest = [fd \in FdNums |-> Unreg]
  /\ rdllist = <<>>
  /\ cond = [fd \in FdNums |-> Zero32]
  /\ waiter = Idle
  /\ last = NoCall
  /\ arm = [fd \in FdNums |-> NoArm]
  /\ dropLog = <<>>

Kinds == Prefix(<<"pipe", "reg">>, NumKinds)

\* EPOLL_CTL_DEL ignores its event, and a call the kernel has no room for fails
\* whatever its event: one event stands for all of them there.
EpollNext ==
  \/ \E cloexec \in BOOLEAN, nomem \in BOOLEAN : Create(cloexec, nomem)
  \/ \E op \in {"EPOLL_CTL_ADD", "EPOLL_CTL_MOD"}, fd \in FdNums, evs \in Masks, tag \in Tags :
       Ctl(op, fd, evs, tag, FALSE)
  \/ \E fd \in FdNums : Ctl("EPOLL_CTL_DEL", fd, empty, Zero64, FALSE)
  \/ \E fd \in FdNums : Ctl("EPOLL_CTL_ADD", fd, EPOLLIN, Zero64, TRUE)
  \/ \E timeout \in Timeouts, n \in 0..MaxBuf : Wait(timeout, n)
  \/ WaitWake
  \/ WaitTimeout
  \/ WaitSignal
  \/ \E eintr \in BOOLEAN : Drop(eintr)
  \/ \E kind \in Kinds : EnvOpen(kind)
  \/ \E fd \in FdNums : EnvClose(fd)
  \/ \E fd \in FdNums, flag \in CondFlags : FdEvent(fd, flag)
  \/ \E fd \in FdNums : FdDrain(fd)
  \/ Settle

(***************************************************************************)
(* The credential helpers of lib.rs over the kernel's process credentials. *)
(* Ids are 0 .. MaxId; InvalidId stands for (uid_t) -1.  A process is      *)
(* privileged (CAP_SETUID, CAP_SETGID) while its effective user id is 0;   *)
(* `deny` is a refusal by a policy outside the credentials (seccomp, LSM). *)
(***************************************************************************)
InvalidId == -1
Ids == 0..MaxId
\* 0o022, 0o077, 0o1022, 0
ModeSeq == <<18, 63, 530, 0>>
Modes == Prefix(ModeSeq, NumModes)
S_IRWXUGO == 511

Privileged(c) == c.euid = 0

sys_setgroups(c, list, deny) ==
  IF deny \/ ~Privileged(c) THEN [raw |-> -1, errno |-> "EPERM", cred |-> c]
  ELSE IF \E i \in 1..Len(list) : list[i] \notin Ids
         THEN [raw |-> -1, errno |-> "EINVAL", cred |-> c]
  ELSE [raw |-> 0, errno |-> "none",
        cred |-> [c EXCEPT !.groups = {list[i] : i \in 1..Len(list)}]]

sys_setgid(c, gid, deny) ==
  IF gid \notin Ids THEN [raw |-> -1, errno |-> "EINVAL", cred |-> c]
  ELSE IF deny THEN [raw |-> -1, errno |-> "EPERM", cred |-> c]
  ELSE IF Privileged(c)
         THEN [raw |-> 0, errno |-> "none",
               cred |-> [c EXCEPT !.rgid = gid, !.egid = gid, !.sgid = gid]]
  ELSE IF gid \in {c.rgid, c.sgid}
         THEN [raw |-> 0, errno |-> "none", cred |-> [c EXCEPT !.egid = gid]]
  ELSE [raw |-> -1, errno |-> "EPERM", cred |-> c]

sys_setuid(c, uid, deny) ==
  IF uid \notin Ids THEN [raw |-> -1, errno |-> "EINVAL", cred |-> c]
  ELSE IF deny THEN [raw |-> -1, errno |-> "EPERM", cred |-> c]
  ELSE IF Privileged(c)
         THEN [raw |-> 0, errno |-> "none",
               cred |-> [c EXCEPT !.ruid = uid, !.euid = uid, !.suid = uid]]
  ELSE IF uid \in {c.ruid, c.suid}
         THEN [raw |-> 0, errno |-> "none", cred |-> [c EXCEPT !.euid = uid]]
  ELSE [raw |-> -1, errno |-> "EPERM", cred |-> c]

sys_umask(c, mode) ==
  [raw |-> c.umask, cred |-> [c EXCEPT !.umask = mode % (S_IRWXUGO + 1)]]

\* What a helper did: the system calls it issued, in order, its result, and the
\* credentials it started from.
Did(op, arg, sys, res, pre) ==
  [op |-> op, arg |-> arg, sys |-> sys, res |-> res, pre |-> pre]
Sys(name, k) == [name |-> name, raw |-> k.raw]

\* Mutant of set_gid: the result of setgroups is not looked at.
set_gid_unchecked(gid, deny1, deny2) ==
  /\ UNCHANGED <<epollVars, algVars>>
  /\ LET k1 == sys_setgroups(cred, <<gid>>, deny1)
         k2 == sys_setgid(k1.cred, gid, deny2)
     IN /\ cred' = k2.cred
        /\ clast' = Did("set_gid", gid, <<Sys("setgroups", k1), Sys("setgid", k2)>>,
                        IF k2.raw # 0 THEN Err(k2.errno) ELSE Ok(0), cred)

set_gid(gid, deny1, deny2) ==
  /\ UNCHANGED <<epollVars, algVars>>
  /\ LET k1 == sys_setgroups(cred, <<gid>>, deny1)
         k2 == sys_setgid(k1.cred, gid, deny2)
     IN IF k1.raw # 0
          THEN /\ cred' = k1.cred
               /\ clast' = Did("set_gid", gid, <<Sys("setgroups", k1)>>, Err(k1.errno), cred)
        ELSE IF k2.raw # 0
          THEN /\ cred' = k2.cred
               /\ clast' = Did("set_gid", gid, <<Sys("setgroups", k1), Sys("setgid", k2)>>,
                               Err(k2.errno), cred)
        ELSE /\ cred' = k2.cred
             /\ clast' = Did("set_gid", gid, <<Sys("setgroups", k1), Sys("setgid", k2)>>,
                             Ok(0), cred)

set_uid(uid, deny) ==
  /\ UNCHANGED <<epollVars, algVars>>
  /\ LET k == sys_setuid(cred, uid, deny)
     IN /\ cred' = k.cred
        /\ clast' = Did("set_uid", uid, <<Sys("setuid", k)>>,
                        IF k.raw # 0 THEN Err(k.errno) ELSE Ok(0), cred)

umask(mode) ==
  /\ UNCHANGED <<epollVars, algVars>>
  /\ LET k == sys_umask(cred, mode)
     IN /\ cred' = k.cred
        /\ clast' = Did("umask", mode, <<Sys("umask", k)>>, Ok(k.raw), cred)

StartCred(uid, gid) ==
  [ruid |-> uid, euid |-> uid, suid |-> uid, rgid |-> gid, egid |-> gid, sgid |-> gid,
   groups |-> {gid}, umask |-> 18]

CredInit ==
  /\ \E uid \in Ids, gid \in Ids : cred = StartCred(uid, gid)
  /\ clast = Did("none", 0, <<>>, Ok(0), cred)

CredNext ==
  \/ \E gid \in Ids \cup {InvalidId}, deny1 \in BOOLEAN, deny2 \in BOOLEAN :
       set_gid(gid, deny1, deny2)
  \/ \E uid \in Ids \cup {InvalidId}, deny \in BOOLEAN : set_uid(uid, deny)
  \/ \E mode \in Modes : umask(mode)

(***************************************************************************)
(* Events values under union and intersection.                             *)
(***************************************************************************)
FlagBits == UNION {AllFlags[i].bits : i \in 1..(IF NumFlags < Len(AllFlags) THEN NumFlags ELSE Len(AllFlags))}
EventsValues == {from_bits(b) : b \in SUBSET FlagBits}

AlgInit == ex \in EventsValues /\ ey \in EventsValues /\ ez \in EventsValues

Union == ex' = bitor(ex, ey) /\ UNCHANGED <<ey, ez, epollVars, credVars>>
Intersect == ey' = bitand(ey, ez) /\ UNCHANGED <<ex, ez, epollVars, credVars>>
Rotate == ex' = ey /\ ey' = ez /\ ez' = ex /\ UNCHANGED <<epollVars, credVars>>
AlgNext == Union \/ Intersect \/ Rotate

IdleCred == cred = StartCred(0, 0) /\ clast = Did("none", 0, <<>>, Ok(0), cred)
IdleAlg == ex = empty /\ ey = empty /\ ez = empty
IdleEpoll ==
  /\ target = "x86_64"
  /\ layout = EventLayout(target, "declared")
  /\ poller = "none"
  /\ epfd = -1
  /\ fdtab = [fd \in FdNums |-> "closed"]
  /\ interest = [fd \in FdNums |-> Unreg]
  /\ rdllist = <<>>
  /\ cond = [fd \in FdNums |-> Zero32]
  /\ waiter = Idle
  /\ last = NoCall
  /\ arm = [fd \in FdNums |-> NoArm]
  /\ dropLog = <<>>

Init == EpollInit /\ IdleCred /\ IdleAlg
Next == EpollNext
Spec == Init /\ [][Next]_vars

InitCred == IdleEpoll /\ CredInit /\ IdleAlg
NextCred == CredNext
\* The poller under waits without a deadline: every wait is given a negative
\* timeout and a buffer that is not empty, and every registration the first tag.
\* The kernel wakes a sleeping epoll_wait whose ready list is not empty.
NextLive ==
  \/ Create(TRUE, FALSE)
  \/ \E op \in {"EPOLL_CTL_ADD", "EPOLL_CTL_MOD"}, fd \in FdNums, evs \in Masks :
       Ctl(op, fd, evs, TagSeq[1], FALSE)
  \/ \E fd \in FdNums : Ctl("EPOLL_CTL_DEL", fd, empty, Zero64, FALSE)
  \/ \E timeout \in {t \in Timeouts : t < 0}, n \in 1..MaxBuf : Wait(timeout, n)
  \/ WaitWake
  \/ WaitSignal
  \/ Drop(FALSE)
  \/ EnvOpen("pipe")
  \/ \E fd \in FdNums : EnvClose(fd)
  \/ \E fd \in FdNums, flag \in CondFlags : FdEvent(fd, flag)
  \/ \E fd \in FdNums : FdDrain(fd)
  \/ Settle
SpecLive == Init /\ [][NextLive]_vars /\ WF_vars(WaitWake)

SpecCred == InitCred /\ [][NextCred]_vars

InitAlg == IdleEpoll /\ IdleCred /\ AlgInit
NextAlg == AlgNext
SpecAlg == InitAlg /\ [][NextAlg]_vars

(***************************************************************************)
(* Properties of the credential helpers and of Events.                     *)
(***************************************************************************)
\* C10 The union and the intersection of Events values are commutative and
\* associative, empty is the zero of intersection and the unit of union, and two
\* Events are equal exactly when their bit fields are.
C10_Algebra ==
  /\ bitor(ex, ey) = bitor(ey, ex)
  /\ bitand(ex, ey) = bitand(ey, ex)
  /\ bitor(bitor(ex, ey), ez) = bitor(ex, bitor(ey, ez))
  /\ bitand(bitand(ex, ey), ez) = bitand(ex, bitand(ey, ez))
  /\ bitand(ex, empty) = empty
  /\ bitor(ex, empty) = ex
  /\ (ex = ey) <=> (bits(ex) = bits(ey))
C10_Witness ==
  /\ ex # ey /\ ey # ez /\ ex # ez
  /\ bitand(ex, ey) # empty
  /\ bitand(ex, ey) # ex
  /\ bitand(ex, ey) # ey
  /\ Has(bits(ex), EPOLLET)
  /\ ez # empty

AllSucceeded(sys) == \A i \in 1..Len(sys) : sys[i].raw = 0
Names(sys) == [i \in 1..Len(sys) |-> sys[i].name]

\* C9 (as stated) Each of set_gid, set_uid and umask performs one system call,
\* returns Ok exactly when it succeeds, and has changed no credential when it
\* returns Err.
C9_Original ==
  clast.op # "none" =>
    /\ Len(clast.sys) = 1
    /\ clast.res.ok <=> AllSucceeded(clast.sys)
    /\ ~clast.res.ok => cred = clast.pre

\* C9 (amended) set_uid performs setuid and umask performs umask, one system call
\* each; set_gid performs setgroups and, when that succeeded, setgid.  A helper
\* returns Ok exactly when every call it performed succeeded, and stops at the
\* first that fails.  umask always returns Ok with the previous mask.  A failing
\* set_uid, and a set_gid that fails in setgroups, change no credential; a
\* set_gid that fails in setgid has replaced the supplementary groups only.
C9_PassThrough ==
  /\ clast.op = "set_uid" =>
       /\ Names(clast.sys) = <<"setuid">>
       /\ clast.res.ok <=> AllSucceeded(clast.sys)
       /\ clast.res.ok => cred.euid = clast.arg
       /\ ~clast.res.ok => cred = clast.pre
  /\ clast.op = "umask" =>
       /\ Names(clast.sys) = <<"umask">>
       /\ clast.res = Ok(clast.pre.umask)
       /\ cred = [clast.pre EXCEPT !.umask = clast.arg % 512]
  /\ clast.op = "set_gid" =>
       /\ Names(clast.sys) \in {<<"setgroups">>, <<"setgroups", "setgid">>}
       /\ clast.res.ok <=> (Len(clast.sys) = 2 /\ AllSucceeded(clast.sys))
       /\ Len(clast.sys) = 2 => clast.sys[1].raw = 0
       /\ clast.res.ok => cred.egid = clast.arg /\ cred.groups = {clast.arg}
       /\ (~clast.res.ok /\ Len(clast.sys) = 1) => cred = clast.pre
       /\ (~clast.res.ok /\ Len(clast.sys) = 2) =>
            cred = [clast.pre EXCEPT !.groups = {clast.arg}]
C9_Witness ==
  /\ clast.op = "set_gid"
  /\ ~clast.res.ok
  /\ Len(clast.sys) = 2
  /\ cred # clast.pre

(***************************************************************************)
(* Properties of the poller.                                               *)
(***************************************************************************)
Returned == last.phase \in {"returned", "resumed"}

\* The event mask the kernel reads from the Event a ctl call `c` passes.
Received(c) == KernelRead(EventImage(layout, Event_new(from_bits(c.evs), c.tag))).events
\* The target of a ctl call is an open file that can be polled and is not the
\* poller itself, and the mask the kernel reads obeys the rules of EPOLLEXCLUSIVE.
Pollable(fd) == FdOpen(fd) /\ fdtab[fd] = "pipe" /\ fd # epfd
ExclusiveOk(c) ==
  \/ c.cop = "EPOLL_CTL_DEL"
  \/ ~Has(Received(c), EPOLLEXCLUSIVE)
  \/ c.cop = "EPOLL_CTL_ADD" /\ Received(c) \subseteq EPOLLEXCLUSIVE_OK_BITS

\* C1 (as stated) ADD returns Ok iff fd is not registered and fails with EEXIST
\* otherwise; MOD and DEL return Ok iff fd is registered and fail with ENOENT
\* otherwise; a failing ctl leaves the registrations unchanged.
C1_Original ==
  [][last'.op = "ctl" =>
       LET c == last'
           was == interest[c.fd].on
       IN /\ c.cop = "EPOLL_CTL_ADD" =>
               /\ c.res.ok <=> ~was
               /\ ~c.res.ok => c.res.err = "EEXIST"
          /\ c.cop \in {"EPOLL_CTL_MOD", "EPOLL_CTL_DEL"} =>
               /\ c.res.ok <=> was
               /\ ~c.res.ok => c.res.err = "ENOENT"
          /\ ~c.res.ok => interest' = interest]_vars

\* C1 (amended) A successful ADD finds fd unregistered, a successful MOD or DEL
\* finds it registered; EEXIST is returned only for a registered fd and ENOENT
\* only for an unregistered one; a failing ctl leaves the registrations
\* unchanged.  When fd is an open pollable file other than the poller and the
\* mask the kernel reads obeys the rules of EPOLLEXCLUSIVE: ADD of a registered
\* fd fails with EEXIST and ADD of an unregistered one returns Ok unless the
\* kernel has no room (ENOSPC); MOD of an unregistered fd fails with ENOENT and
\* MOD of a registered one returns Ok unless it was registered with
\* EPOLLEXCLUSIVE (EINVAL); DEL returns Ok iff fd is registered and fails with
\* ENOENT otherwise.
C1_Ctl ==
  [][last'.op = "ctl" =>
       LET c == last'
           was == interest[c.fd].on
       IN /\ ~c.res.ok => interest' = interest
          /\ (c.res.ok /\ c.cop = "EPOLL_CTL_ADD") => ~was
          /\ (c.res.ok /\ c.cop # "EPOLL_CTL_ADD") => was
          /\ c.res.err = "EEXIST" => (c.cop = "EPOLL_CTL_ADD" /\ was)
          /\ c.res.err = "ENOENT" => (c.cop # "EPOLL_CTL_ADD" /\ ~was)
          /\ (Pollable(c.fd) /\ ExclusiveOk(c)) =>
               CASE c.cop = "EPOLL_CTL_ADD" ->
                      IF was THEN c.res = Err("EEXIST")
                      ELSE c.res.ok \/ c.res = Err("ENOSPC")
                 [] c.cop = "EPOLL_CTL_MOD" ->
                      IF ~was THEN c.res = Err("ENOENT")
                      ELSE IF Has(interest[c.fd].events, EPOLLEXCLUSIVE)
                        THEN c.res = Err("EINVAL")
                      ELSE c.res.ok
                 [] c.cop = "EPOLL_CTL_DEL" ->
                      IF was THEN c.res.ok ELSE c.res = Err("ENOENT")]_vars
C1_Witness ==
  /\ last.op = "ctl"
  /\ last.cop = "EPOLL_CTL_ADD"
  /\ last.res = Err("EEXIST")
  /\ Pollable(last.fd)
  /\ interest[last.fd].on

\* C2 When a wait returns the event of one registered descriptor, it returns 1
\* and the event in slot 0 of the buffer carries the tag the descriptor was
\* registered with.
C2_TagRoundTrip ==
  (last.op = "wait" /\ Returned /\ Len(last.from) = 1) =>
    /\ last.res = Ok(1)
    /\ raw_data(EventAt(layout, last.mem, 0)) = arm[last.from[1]].tag

\* C3 The first release of a poller closes its epoll instance and every later
\* release closes nothing, whatever file has taken the number since; a released
\* poller holds -1, a live one its open epoll instance; a release issues one
\* close and reports no result, even when the close fails.
C3_ClosedOnce ==
  /\ \A i \in 1..Len(dropLog) : dropLog[i] = IF i = 1 THEN "epoll" ELSE "closed"
  /\ poller = "dropped" => epfd = -1
  /\ poller = "live" => (dropLog = <<>> /\ FdOpen(epfd) /\ fdtab[epfd] = "epoll")
  /\ last.op = "drop" => (last.sys = <<"close">> /\ last.res = NoCall.res)
C3_Witness ==
  /\ Len(dropLog) = 2
  /\ \A fd \in FdNums : fdtab[fd] \in {"pipe", "reg"}

\* C4 The kernel is handed -1 for a timeout below -1 and the caller's timeout
\* otherwise; every timeout reaches the kernel; a wait with timeout 0 does not
\* sleep, and a wait with a negative timeout that sleeps has no deadline and
\* returns at once only with an error or an event.
C4_TimeoutClamp ==
  (last.op = "wait" /\ last.phase # "resumed") =>
    /\ last.ktimeout = IF last.timeout < -1 THEN -1 ELSE last.timeout
    /\ last.sys = <<"epoll_wait">>
    /\ last.timeout = 0 => last.phase = "returned"
    /\ (last.timeout < 0 /\ last.phase = "blocked") => (waiter.blocked /\ ~waiter.timed)
    /\ (last.timeout < 0 /\ last.phase = "returned") => (~last.res.ok \/ last.res.val >= 1)
C4_Witness ==
  /\ last.op = "wait"
  /\ last.timeout = I32Min
  /\ last.ktimeout = -1
  /\ last.phase = "blocked"

\* A wait that the caller gave a negative timeout or, once it slept, that had
\* no deadline, and a buffer that is not empty.
NegativeWait ==
  /\ last.op = "wait"
  /\ last.len >= 1
  /\ \/ last.phase = "returned" /\ last.timeout < 0
     \/ last.phase = "resumed" /\ last.indef
\* A registered descriptor has an event to report.
Reportable(fd) == InSeq(rdllist, fd) /\ And32(cond[fd], interest[fd].events) # Zero32
AnyReportable == \E fd \in FdNums : Reportable(fd)

C6_OneShot ==
  \A fd \in FdNums :
    (arm[fd].on /\ OneShotEdge \subseteq arm[fd].events) => arm[fd].n <= 1

\* No registered descriptor has an event to report.
NoneReady == \A fd \in FdNums : interest[fd].on => And32(cond[fd], interest[fd].events) = Zero32

\* C7 (as stated) A wait with timeout 0 on a poller on which no registered
\* descriptor is ready returns Ok(0) without sleeping, writes nothing to the
\* buffer and leaves every registration unchanged.
C7_Original ==
  [][(last'.op = "wait" /\ last'.phase # "resumed" /\ last'.timeout = 0 /\ NoneReady) =>
       /\ last'.phase = "returned"
       /\ last'.res = Ok(0)
       /\ last'.mem = Zeroed(last'.len * layout.size)
       /\ interest' = interest]_vars

\* C7 (amended) The same for a wait with a buffer that is not empty.
C7_Poll ==
  [][(/\ last'.op = "wait" /\ last'.phase # "resumed" /\ last'.timeout = 0
      /\ last'.len >= 1 /\ NoneReady) =>
       /\ last'.phase = "returned"
       /\ last'.res = Ok(0)
       /\ last'.mem = Zeroed(last'.len * layout.size)
       /\ interest' = interest]_vars
C7_Witness ==
  /\ last.op = "wait"
  /\ last.timeout = 0
  /\ last.len >= 1
  /\ last.res = Ok(0)
  /\ \E fd \in FdNums : interest[fd].on /\ cond[fd] # Zero32
  /\ NoneReady

\* C8 create, ctl and wait issue one system call each; once it returns, the
\* result is Err with the call's errno exactly when its return value is
\* negative, and Ok otherwise, with that value for create and wait; a wait
\* that a signal interrupts returns Err(EINTR) and sleeps no more.
C8_OneCall ==
  (last.op \in {"create", "ctl", "wait"}) =>
    /\ Len(last.sys) = 1
    /\ last.sys[1] = (CASE last.op = "create" -> "epoll_create1"
                        [] last.op = "ctl" -> "epoll_ctl"
                        [] last.op = "wait" -> "epoll_wait")
    /\ Returned =>
         /\ last.raw < 0 => last.res = Err(last.errno)
         /\ last.raw >= 0 => last.res.ok
         /\ (last.raw >= 0 /\ last.op # "ctl") => last.res.val = last.raw
    /\ (Returned /\ last.errno = "EINTR") => (last.res = Err("EINTR") /\ ~waiter.blocked)
C8_Witness ==
  /\ last.op = "wait"
  /\ last.phase = "resumed"
  /\ last.raw = -1
  /\ last.res = Err("EINTR")

==============================================================================
